---- MODULE Spec2Model ----
(***************************************************************************)
(* A model of tensorflow_federated/python/learning/federated_averaging.py: *)
(* the client computation client_tf and the server computations            *)
(* server_init / server_update_model of Federated Averaging.               *)
(*                                                                         *)
(* Numbers are fixed-point: on the client side one unit is 0.5, so that    *)
(* the values of the documented scenario (2.0, 0.5, 3.5) are exact.        *)
(***************************************************************************)
EXTENDS Integers, Sequences, FiniteSets, TLC

\* ------------------------------------------------------------------ bounds
\* Longest dataset (number of batches) a client call is given.
MaxBatches == 2

\* --------------------------------------------------------- names and nests
\* Variable names in the order Python's sorted() gives them.
NameOrder == <<"b", "n", "w", "x">>

Rank(name) == CHOOSE i \in 1..Len(NameOrder) : NameOrder[i] = name

\* An ordered dict is a sequence of [k, v] entries with distinct keys, in
\* insertion order.
Keys(od) == {od[i].k : i \in DOMAIN od}

Get(od, key) == od[CHOOSE i \in DOMAIN od : od[i].k = key].v

\* sorted(keys)
SortedKeys(S) ==
  CHOOSE s \in [1..Cardinality(S) -> S] :
    /\ \A i, j \in 1..Cardinality(S) : i < j => Rank(s[i]) < Rank(s[j])

\* The keys in insertion order: what a flatten that does not sort would use.
Flatten_insertion_order(od) == [i \in DOMAIN od |-> od[i].v]

\* nest.flatten of a dict: the values in the order of the sorted keys,
\* whatever the insertion order.
Flatten(od) == [i \in 1..Len(od) |-> Get(od, SortedKeys(Keys(od))[i])]

\* nest.flatten of a ModelVars namedtuple: trainable first, then
\* non-trainable.
FlattenModelVars(mv) == Flatten(mv.tr) \o Flatten(mv.ntr)

\* nest.assert_same_structure on two dicts: the same set of keys.
SameDict(a, b) == Keys(a) = Keys(b)

\* A structure check that only counts the entries.
SameStructure_count_only(a, b) == Len(a) = Len(b)

\* nest.assert_same_structure(delta, model_vars.trainable_variables)
SameStructure(a, b) == SameDict(a, b)

\* nest.assert_same_structure on two ModelVars.
SameModelVars(a, b) == SameDict(a.tr, b.tr) /\ SameDict(a.ntr, b.ntr)

\* tensor_utils.to_var_dict: an ordered dict keyed by name, in list order.
ToVarDict(names) == [i \in DOMAIN names |-> [k |-> names[i], v |-> names[i]]]

\* All orderings of a set as sequences without repetition.
Perms(S) ==
  {s \in [1..Cardinality(S) -> S] : \A i, j \in DOMAIN s : i # j => s[i] # s[j]}

\* All ordered dicts over exactly the keys K with values in V.
Odicts(K, V) ==
  {[i \in DOMAIN p |-> [k |-> p[i], v |-> f[p[i]]]] : p \in Perms(K), f \in [K -> V]}

Range(s) == {s[i] : i \in DOMAIN s}

\* ------------------------------------------------------------- the models
\* Two implementations of the Model interface that client_tf is handed:
\* "scenario", the documented one (a single trainable scalar w), and "lsq",
\* a least-squares model with two trainable variables and a non-trainable
\* step counter.
ModelKinds == {"scenario", "lsq"}

\* model.trainable_variables, in the model's own list order.
TrainableNames(kind) == IF kind = "scenario" THEN <<"w">> ELSE <<"w", "b">>

\* model.non_trainable_variables
NonTrainableNames(kind) == IF kind = "scenario" THEN <<>> ELSE <<"n">>

VarNames(kind) == Range(TrainableNames(kind)) \cup Range(NonTrainableNames(kind))

\* The scenario's step: w <- w - 0.5 (one unit is 0.5).
ScenarioStep == 1

\* The scenario's initial value of w: 2.0.
ScenarioInit == 4

Abs(x) == IF x < 0 THEN -x ELSE x

\* model.train_on_batch(batch): the variables after the step and the loss.
TrainOnBatch(kind, values, batch) ==
  IF kind = "scenario"
  THEN [vars |-> [values EXCEPT !["w"] = @ - ScenarioStep], loss |-> values["w"]]
  ELSE LET err == values["w"] + values["b"] - batch
       IN [vars |-> [values EXCEPT !["w"] = @ - err,
                                 !["b"] = @ - err,
                                 !["n"] = @ + 1],
           loss |-> Abs(err)]

\* model.aggregated_outputs(): the model's own metrics.
AggregatedOutputs(kind, values) == IF kind = "scenario" THEN 0 ELSE values["n"]

\* ModelVars.from_model(model)
FromModel(kind) ==
  [tr |-> ToVarDict(TrainableNames(kind)), ntr |-> ToVarDict(NonTrainableNames(kind))]

\* ------------------------------------------------------- client inputs
Clients == {1, 2}

\* The model objects a caller may hand to client_tf; object c is the one
\* built for invocation c.
ModelObjects == Clients

\* Values a model's variables may hold before the call.
PriorVals == {0, 3}

\* Values the server may send for a variable.
InitVals == {1, ScenarioInit}

\* Batches: the regression target of the batch.
Batches == {0, 1, 2}

Datasets == UNION {[1..n -> Batches] : n \in 0..MaxBatches}

\* An ordered dict without the entry of key.
Without(od, key) == SelectSeq(od, LAMBDA e : e.k # key)

\* The initial-value structures that match the model's layout.
MatchingInitialModels(kind) ==
  {[tr |-> t, ntr |-> u] :
     t \in Odicts(Range(TrainableNames(kind)), InitVals),
     u \in Odicts(Range(NonTrainableNames(kind)), InitVals)}

\* The same with one variable missing.
DeficientInitialModels(kind) ==
  {[tr |-> Without(m.tr, name), ntr |-> Without(m.ntr, name)] :
     m \in MatchingInitialModels(kind), name \in VarNames(kind)}

InitialModels(kind) == MatchingInitialModels(kind) \cup DeficientInitialModels(kind)

NoArgs == [kind |-> "none"]
NoOutput == [model_delta |-> <<>>, none |-> TRUE]
LossInit == 0

VARIABLES
  cpc,      \* client -> position in client_tf
  cargs,    \* client -> the arguments of its call
  cvars,    \* model object -> the values of its variables, by name
  casg,     \* client -> number of tf.assign already run by line 124
  closs,    \* client -> the reduce state (loss_sum)
  ctrace,   \* client -> the batches train_on_batch was called with, in order
  cout,     \* client -> the ClientOutput returned
  cerr      \* client -> the error raised

cvarsAll == <<cpc, cargs, cvars, casg, closs, ctrace, cout, cerr>>

VARIABLES
  scfg,     \* the optimizer configuration optimizer_fn builds
  spc,      \* call -> position in server_init / server_update_model
  sargs,    \* call -> its arguments (input ServerState, model_delta)
  cells,    \* call -> the values of the variables the call created
  svars,    \* call -> the ServerState over the call's own variables
  sret,     \* call -> the ServerState it returned
  serr,     \* call -> the error raised
  durable   \* the ServerState the orchestrator holds between rounds

svarsAll == <<scfg, spc, sargs, cells, svars, sret, serr, durable>>

vars == <<cvarsAll, svarsAll>>

ClientInit ==
  /\ cpc = [c \in Clients |-> "idle"]
  /\ cargs = [c \in Clients |-> NoArgs]
  /\ cvars = [m \in ModelObjects |-> <<>>]
  /\ casg = [c \in Clients |-> 0]
  /\ closs = [c \in Clients |-> LossInit]
  /\ ctrace = [c \in Clients |-> <<>>]
  /\ cout = [c \in Clients |-> NoOutput]
  /\ cerr = [c \in Clients |-> "none"]

\* The model object invocation c was handed.
ModelOf(c) == cargs[c].model

\* client_tf(model, dataset, initial_model) is entered with these arguments;
\* model object m holds the values prior at that point.
ClientEnter(c, m, kind, isModel, isDataset, prior, dataset, initial_model) ==
  /\ cpc[c] = "idle"
  /\ cargs' = [cargs EXCEPT ![c] =
                 [model |-> m, kind |-> kind, isModel |-> isModel,
                  isDataset |-> isDataset, prior |-> prior, dataset |-> dataset,
                  initial_model |-> initial_model]]
  /\ cvars' = [cvars EXCEPT ![m] = prior]
  /\ cpc' = [cpc EXCEPT ![c] = "check_type"]
  /\ UNCHANGED <<casg, closs, ctrace, cout, cerr, svarsAll>>

\* client_tf(model, dataset, initial_model) is called on the model built for
\* this invocation: the caller's choice of arguments. The model holds
\* arbitrary values at that point.
ClientCall(c) ==
  /\ cpc[c] = "idle"
  /\ \E kind \in ModelKinds, isModel \in BOOLEAN, isDataset \in BOOLEAN :
       \E prior \in [VarNames(kind) -> PriorVals],
          dataset \in Datasets,
          initial_model \in InitialModels(kind) :
      ClientEnter(c, c, kind, isModel, isDataset, prior, dataset, initial_model)

\* The initial models the concurrent invocations are sent.
ConcurrentInitialModels ==
  {[tr |-> <<[k |-> "w", v |-> w], [k |-> "b", v |-> 1]>>,
    ntr |-> <<[k |-> "n", v |-> 1]>>] : w \in InitVals}

\* The datasets the concurrent invocations train on.
ConcurrentDatasets == {[i \in 1..n |-> 1] : n \in 0..MaxBatches}

\* The invocations that are under way or over on model object m.
UsersOf(m) == {d \in Clients : cargs[d] # NoArgs /\ cargs[d].model = m}

\* client_tf is called while other invocations may be running; client_tf
\* builds no model of its own, so the caller may hand it a model object that
\* another invocation was handed, which then holds whatever that invocation
\* left in it.
ConcurrentCall(c) ==
  /\ cpc[c] = "idle"
  /\ \E m \in ModelObjects, dataset \in ConcurrentDatasets,
        initial_model \in ConcurrentInitialModels :
    ClientEnter(c, m, "lsq", TRUE, TRUE,
                IF UsersOf(m) = {}
                THEN [name \in VarNames("lsq") |-> 0]
                ELSE cvars[m],
                dataset, initial_model)

\* A check of the model alone.
CheckTypesOk_model_only(isModel, isDataset) == isModel

\* py_typecheck.check_type(model, Model); check_type(dataset, Dataset):
\* both arguments are instances of the types asked for.
CheckTypesOk(isModel, isDataset) == isModel /\ isDataset

\* The two type checks at the head of client_tf, before anything else.
ClientCheckType(c) ==
  /\ cpc[c] = "check_type"
  /\ IF CheckTypesOk(cargs[c].isModel, cargs[c].isDataset)
     THEN /\ cpc' = [cpc EXCEPT ![c] = "check_structure"]
          /\ UNCHANGED cerr
     ELSE /\ cpc' = [cpc EXCEPT ![c] = "failed"]
          /\ cerr' = [cerr EXCEPT ![c] = "TypeError"]
  /\ UNCHANGED <<cargs, cvars, casg, closs, ctrace, cout, svarsAll>>

\* A check that stops at the first variable the initial model lacks, the
\* earlier ones having been assigned already.
AssignStructureOk_lazy(kind, initial_model) == TRUE

\* nest.map_structure checks the structures before it applies tf.assign to
\* any pair.
AssignStructureOk(kind, initial_model) ==
  SameModelVars(FromModel(kind), initial_model)

\* model_vars = ModelVars.from_model(model), and the structure check of
\* nest.map_structure(tf.assign, model_vars, initial_model).
ClientCheckStructure(c) ==
  /\ cpc[c] = "check_structure"
  /\ IF AssignStructureOk(cargs[c].kind, cargs[c].initial_model)
     THEN /\ cpc' = [cpc EXCEPT ![c] = "assign"]
          /\ UNCHANGED cerr
     ELSE /\ cpc' = [cpc EXCEPT ![c] = "failed"]
          /\ cerr' = [cerr EXCEPT ![c] = "StructureError"]
  /\ UNCHANGED <<cargs, cvars, casg, closs, ctrace, cout, svarsAll>>

\* An assignment of the trainable variables alone.
AssignTargets_trainable_only(kind) == Flatten(FromModel(kind).tr)

\* The variables tf.assign writes, in the order map_structure visits them.
AssignTargets(kind) == FlattenModelVars(FromModel(kind))

\* An assign that leaves the variable as it was.
AssignValue_noop(old, new) == old

\* tf.assign(ref, value): the value ref holds afterwards.
AssignValue(old, new) == new

\* The i-th tf.assign of line 124.
ClientAssign(c) ==
  /\ cpc[c] = "assign"
  /\ LET targets == AssignTargets(cargs[c].kind)
         i == casg[c] + 1
         name == targets[i]
         inTr == name \in Range(TrainableNames(cargs[c].kind))
         src == IF inTr THEN cargs[c].initial_model.tr ELSE cargs[c].initial_model.ntr
     IN /\ i <= Len(targets)
        \* A variable the initial model has no value for cannot be assigned.
        /\ IF name \in Keys(src)
           THEN /\ cvars' = [cvars EXCEPT ![ModelOf(c)][name] = AssignValue(@, Get(src, name))]
                /\ casg' = [casg EXCEPT ![c] = i]
                /\ cpc' = [cpc EXCEPT ![c] = IF i = Len(targets) THEN "train" ELSE "assign"]
                /\ UNCHANGED cerr
           ELSE /\ cpc' = [cpc EXCEPT ![c] = "failed"]
                /\ cerr' = [cerr EXCEPT ![c] = "StructureError"]
                /\ UNCHANGED <<cvars, casg>>
  /\ UNCHANGED <<cargs, closs, ctrace, cout, svarsAll>>

\* A loop that takes the batches last to first.
NextBatch_reversed(dataset, done) == dataset[Len(dataset) - done]

\* dataset.reduce hands reduce_fn the batches in dataset order.
NextBatch(dataset, done) == dataset[done + 1]

\* One reduce_fn(dummy_state, batch): train_on_batch, then add the loss.
ClientTrain(c) ==
  /\ cpc[c] = "train"
  /\ Len(ctrace[c]) < Len(cargs[c].dataset)
  /\ LET batch == NextBatch(cargs[c].dataset, Len(ctrace[c]))
         r == TrainOnBatch(cargs[c].kind, cvars[ModelOf(c)], batch)
     IN /\ cvars' = [cvars EXCEPT ![ModelOf(c)] = r.vars]
        /\ closs' = [closs EXCEPT ![c] = @ + r.loss]
        /\ ctrace' = [ctrace EXCEPT ![c] = Append(@, batch)]
  /\ UNCHANGED <<cpc, cargs, casg, cout, cerr, svarsAll>>

\* A delta over every variable of the model.
DeltaNames_all(kind) == TrainableNames(kind) \o NonTrainableNames(kind)

\* The variables the delta is computed for: model_vars.trainable_variables.
DeltaNames(kind) == TrainableNames(kind)

\* initial - trained
Subtract_swapped(trained, initial) == initial - trained

\* tf.subtract(variable, initial value)
Subtract(trained, initial) == trained - initial

\* The value the server sent for a variable.
InitialValue(initial_model, name) ==
  IF name \in Keys(initial_model.tr)
  THEN Get(initial_model.tr, name)
  ELSE Get(initial_model.ntr, name)

\* model_delta = nest.map_structure(tf.subtract, trainable, initial)
ModelDelta(kind, trained, initial_model) ==
  LET names == DeltaNames(kind)
  IN [i \in DOMAIN names |->
        [k |-> names[i],
         v |-> Subtract(trained[names[i]], InitialValue(initial_model, names[i]))]]

\* The end of the loop, the delta and the returned ClientOutput.
ClientDelta(c) ==
  /\ cpc[c] = "train"
  /\ Len(ctrace[c]) = Len(cargs[c].dataset)
  /\ cout' = [cout EXCEPT ![c] =
       [model_delta |->
          ModelDelta(cargs[c].kind, cvars[ModelOf(c)], cargs[c].initial_model),
        model_output |-> AggregatedOutputs(cargs[c].kind, cvars[ModelOf(c)]),
        optimizer_output |->
          <<[k |-> "workaround_to_keep_side_effects", v |-> closs[c]]>>]]
  /\ cpc' = [cpc EXCEPT ![c] = "done"]
  /\ UNCHANGED <<cargs, cvars, casg, closs, ctrace, cerr, svarsAll>>

ClientStep(c) ==
  \/ ClientCall(c)
  \/ ClientCheckType(c)
  \/ ClientCheckStructure(c)
  \/ ClientAssign(c)
  \/ ClientTrain(c)
  \/ ClientDelta(c)

\* ---------------------------------------------------------------- server
\* Number of server_update calls after server_init.
MaxRounds == 2

\* Call 0 is server_init; calls 1..MaxRounds are server_update_model.
Calls == 0..MaxRounds

\* The model that model_fn builds on the server.
ServerKind == "lsq"

\* The values the model's initializers may give its variables: model_fn
\* builds a new model at every call, and initializers need not give the
\* same values twice.
Initializers == {[w |-> 1, b |-> 2, n |-> 5], [w |-> 3, b |-> 0, n |-> 6]}

\* The values the initializers may give the variables called names.
InitializerValues(names) ==
  {[name \in Range(names) |-> init[name]] : init \in Initializers}

\* The optimizers optimizer_fn may build: plain gradient descent with two
\* learning rates, and momentum (accum <- momentum*accum + g;
\* v <- v - lr*accum).
OptimizerConfigs ==
  {[kind |-> "sgd", lr |-> 1, momentum |-> 0],
   [kind |-> "sgd", lr |-> 2, momentum |-> 0],
   [kind |-> "momentum", lr |-> 1, momentum |-> 1]}

DeltaVals == {-1, 0, 1}

\* Deltas with the model's trainable names, in either insertion order.
MatchingDeltas == Odicts(Range(TrainableNames(ServerKind)), DeltaVals)

\* Deltas whose names differ from the trainable names.
MismatchedDeltas == Odicts({"w", "x"}, {1}) \cup Odicts({"w"}, {1})

Deltas == MatchingDeltas \cup MismatchedDeltas

\* A variable: the call that created it, its group and its name.
Addr(call, grp, name) == [call |-> call, grp |-> grp, name |-> name]

NoCells == [none |-> TRUE]
NoState == [none |-> TRUE]
NoCall == [op |-> "none"]


\* The value of a variable.
Read(cs, a) == cs[a.call][a.grp][a.name]

\* cs with value written to variable a.
Write(cs, a, value) == [cs EXCEPT ![a.call][a.grp][a.name] = value]

\* The values of a ServerState: per-name model values, and the list of
\* optimizer values.
StateValues(cs, st) ==
  [tr |-> [name \in Keys(st.model.tr) |-> Read(cs, Get(st.model.tr, name))],
   ntr |-> [name \in Keys(st.model.ntr) |-> Read(cs, Get(st.model.ntr, name))],
   opt |-> [i \in DOMAIN st.optimizer_state |-> Read(cs, st.optimizer_state[i])]]

ServerInit ==
  /\ scfg \in OptimizerConfigs
  /\ spc = [k \in Calls |-> "unborn"]
  /\ sargs = [k \in Calls |-> NoCall]
  /\ cells = [k \in Calls |-> NoCells]
  /\ svars = [k \in Calls |-> NoState]
  /\ sret = [k \in Calls |-> NoState]
  /\ serr = [k \in Calls |-> "none"]
  /\ durable = NoState

Active(k) == spc[k] \notin {"unborn", "done", "failed"}

\* The orchestrator calls server_init(model_fn, optimizer_fn), once.
ServerInitCall ==
  /\ spc[0] = "unborn"
  /\ spc' = [spc EXCEPT ![0] = "construct"]
  /\ sargs' = [sargs EXCEPT ![0] = [op |-> "init"]]
  /\ UNCHANGED <<scfg, cells, svars, sret, serr, durable, cvarsAll>>

\* server_update_model(durable, model_delta, ...) is entered: call k takes
\* the durable ServerState of this moment as its current_state.
ServerUpdateEnter(k, delta) ==
  /\ k > 0
  /\ spc[k] = "unborn"
  /\ \A j \in Calls : j < k => spc[j] # "unborn"
  /\ durable # NoState
  /\ sargs' = [sargs EXCEPT ![k] =
                [op |-> "update", server_state |-> durable, model_delta |-> delta]]
  /\ spc' = [spc EXCEPT ![k] = "construct"]
  /\ UNCHANGED <<scfg, cells, svars, sret, serr, durable, cvarsAll>>

\* The orchestrator calls server_update_model(durable, model_delta, ...),
\* one call at a time.
ServerUpdateCall(k) ==
  /\ spc[k] = "unborn"
  /\ \A j \in Calls : ~Active(j)
  /\ \E delta \in Deltas : ServerUpdateEnter(k, delta)

\* The deltas of the overlapping calls: each moves one trainable variable.
OverlapDeltas == {<<[k |-> "w", v |-> 1], [k |-> "b", v |-> 0]>>,
                  <<[k |-> "w", v |-> 0], [k |-> "b", v |-> -1]>>,
                  <<[k |-> "w", v |-> -1], [k |-> "b", v |-> 1]>>}

\* An orchestrator that does not wait: server_update_model is called while
\* earlier calls may still be under way.
OverlapUpdateCall(k) ==
  /\ spc[k] = "unborn"
  /\ \E delta \in OverlapDeltas : ServerUpdateEnter(k, delta)

\* model = model_fn(); optimizer = optimizer_fn();
\* model_vars = ModelVars.from_model(model): fresh variables of this call,
\* at their initializer values; the optimizer has no variables yet.
ServerConstruct(k) ==
  /\ spc[k] = "construct"
  /\ \E init \in Initializers :
       cells' = [cells EXCEPT ![k] =
         [tr |-> [name \in Range(TrainableNames(ServerKind)) |-> init[name]],
          ntr |-> [name \in Range(NonTrainableNames(ServerKind)) |-> init[name]],
          slot |-> <<>>]]
  /\ spc' = [spc EXCEPT ![k] = "trace"]
  /\ UNCHANGED <<scfg, sargs, svars, sret, serr, durable, cvarsAll>>

\* The call's model_vars: name -> the call's own variable.
ModelVarsOf(k) ==
  [tr |-> [i \in DOMAIN TrainableNames(ServerKind) |->
             [k |-> TrainableNames(ServerKind)[i],
              v |-> Addr(k, "tr", TrainableNames(ServerKind)[i])]],
   ntr |-> [i \in DOMAIN NonTrainableNames(ServerKind) |->
             [k |-> NonTrainableNames(ServerKind)[i],
              v |-> Addr(k, "ntr", NonTrainableNames(ServerKind)[i])]]]

\* Pairs in insertion order, with no flattening.
GradsAndVars_insertion_order(delta, trainable) ==
  [i \in DOMAIN delta |->
     [g |-> (-1) * Flatten_insertion_order(delta)[i],
      v |-> Flatten_insertion_order(trainable)[i]]]

\* grads_and_vars = map_structure(lambda x, v: (-1.0 * x, v),
\*                                flatten(delta), flatten(trainable))
GradsAndVars(delta, trainable) ==
  [i \in DOMAIN delta |-> [g |-> (-1) * Flatten(delta)[i], v |-> Flatten(trainable)[i]]]

\* The gradient that grads_and_vars pairs with variable a.
GradOf(gv, a) == gv[CHOOSE i \in DOMAIN gv : gv[i].v = a].g

\* optimizer.apply_gradients(grads_and_vars) on the variables cs of one
\* call: creates the momentum slot of a variable on first use (at zero),
\* then updates slot and variable.
ApplyGradients(cfg, cs, gv) ==
  LET touched == {gv[i].v.name : i \in DOMAIN gv}
      g(name) == GradOf(gv, CHOOSE a \in Range([i \in DOMAIN gv |-> gv[i].v]) : a.name = name)
      old(name) == IF name \in DOMAIN cs.slot THEN cs.slot[name] ELSE 0
      acc(name) == cfg.momentum * old(name) + g(name)
  IN IF cfg.kind = "sgd"
     THEN [cs EXCEPT !.tr = [name \in DOMAIN cs.tr |->
                               IF name \in touched
                               THEN cs.tr[name] - cfg.lr * g(name)
                               ELSE cs.tr[name]]]
     ELSE [cs EXCEPT
             !.slot = [name \in DOMAIN cs.slot \cup touched |->
                         IF name \in touched THEN acc(name) ELSE cs.slot[name]],
             !.tr = [name \in DOMAIN cs.tr |->
                       IF name \in touched
                       THEN cs.tr[name] - cfg.lr * acc(name)
                       ELSE cs.tr[name]]]

\* A dummy delta of ones.
ZerosLike_ones(trainable) == [i \in DOMAIN trainable |-> [k |-> trainable[i].k, v |-> 1]]

\* model_delta = map_structure(tf.zeros_like, trainable_variables)
ZerosLike(trainable) == [i \in DOMAIN trainable |-> [k |-> trainable[i].k, v |-> 0]]

\* apply_delta(delta=zeros): the dummy call that traces apply_delta and so
\* makes the optimizer create its variables.
ServerTrace(k) ==
  /\ spc[k] = "trace"
  /\ LET mv == ModelVarsOf(k)
         zeros == ZerosLike(mv.tr)
     IN /\ SameStructure(zeros, mv.tr)
        /\ cells' = [cells EXCEPT ![k] =
                       ApplyGradients(scfg, cells[k], GradsAndVars(zeros, mv.tr))]
  /\ spc' = [spc EXCEPT ![k] = "capture"]
  /\ UNCHANGED <<scfg, sargs, svars, sret, serr, durable, cvarsAll>>

\* optimizer.variables(): the optimizer's variables sorted by name.
OptimizerVariables(k, cs) ==
  [i \in 1..Cardinality(DOMAIN cs.slot) |-> Addr(k, "slot", SortedKeys(DOMAIN cs.slot)[i])]

\* optimizer_vars = optimizer.variables();
\* ServerState(model=model_vars, optimizer_state=optimizer_vars)
ServerCapture(k) ==
  /\ spc[k] = "capture"
  /\ svars' = [svars EXCEPT ![k] =
       [model |-> ModelVarsOf(k), optimizer_state |-> OptimizerVariables(k, cells[k])]]
  /\ spc' = [spc EXCEPT ![k] = IF sargs[k].op = "init" THEN "return" ELSE "restore"]
  /\ UNCHANGED <<scfg, sargs, cells, sret, serr, durable, cvarsAll>>

\* nest.flatten of a ServerState: the model (trainable, then non-trainable,
\* each by sorted name), then the optimizer_state list by position.
FlattenState(st) ==
  Flatten(st.model.tr) \o Flatten(st.model.ntr) \o st.optimizer_state

\* nest.assert_same_structure on two ServerStates.
SameState(a, b) ==
  /\ SameModelVars(a.model, b.model)
  /\ Len(a.optimizer_state) = Len(b.optimizer_state)

\* tf.assign(targets[i], sources[i]) for i = 1, 2, ... in turn.
RECURSIVE AssignAll(_, _, _)
AssignAll(cs, targets, sources) ==
  IF targets = <<>>
  THEN cs
  ELSE AssignAll(Write(cs, Head(targets),
                       AssignValue(Read(cs, Head(targets)), Read(cs, Head(sources)))),
                 Tail(targets), Tail(sources))

Reverse(s) == [i \in DOMAIN s |-> s[Len(s) + 1 - i]]

\* The assignment written the other way round: into the input state.
Restore_into_input(cs, own, input) ==
  AssignAll(cs, FlattenState(input), FlattenState(own))

\* No restore at all: the fresh variables keep what they hold.
Restore_skipped(cs, own, input) == cs

\* The optimizer values restored last to first.
Restore_optimizer_reversed(cs, own, input) ==
  AssignAll(cs, FlattenState(own),
            Flatten(input.model.tr) \o Flatten(input.model.ntr)
              \o Reverse(input.optimizer_state))

\* The model restored, the optimizer's variables left as the trace left them.
Restore_model_only(cs, own, input) ==
  AssignAll(cs, Flatten(own.model.tr) \o Flatten(own.model.ntr),
            Flatten(input.model.tr) \o Flatten(input.model.ntr))

\* The non-trainable variables left as the new model's initializers set them.
Restore_without_non_trainable(cs, own, input) ==
  AssignAll(cs, Flatten(own.model.tr) \o own.optimizer_state,
            Flatten(input.model.tr) \o input.optimizer_state)

\* nest.map_structure(tf.assign, server_vars, server_state)
Restore(cs, own, input) ==
  AssignAll(cs, FlattenState(own), FlattenState(input))

\* update_model_inner, first statement: every variable of the call is
\* assigned the value the input state holds at the same place.
ServerRestore(k) ==
  /\ spc[k] = "restore"
  /\ IF SameState(svars[k], sargs[k].server_state)
     THEN /\ cells' = Restore(cells, svars[k], sargs[k].server_state)
          /\ spc' = [spc EXCEPT ![k] = "apply"]
          /\ UNCHANGED serr
     ELSE /\ spc' = [spc EXCEPT ![k] = "failed"]
          /\ serr' = [serr EXCEPT ![k] = "StructureError"]
          /\ UNCHANGED cells
  /\ UNCHANGED <<scfg, sargs, svars, sret, durable, cvarsAll>>

\* update_model_inner, second statement: apply_delta_fn(model_delta).
ServerApplyDelta(k) ==
  /\ spc[k] = "apply"
  /\ LET mv == svars[k].model
         delta == sargs[k].model_delta
     IN IF SameStructure(delta, mv.tr)
        THEN /\ cells' = [cells EXCEPT ![k] =
                            ApplyGradients(scfg, cells[k], GradsAndVars(delta, mv.tr))]
             /\ spc' = [spc EXCEPT ![k] = "return"]
             /\ UNCHANGED serr
        ELSE /\ spc' = [spc EXCEPT ![k] = "failed"]
             /\ serr' = [serr EXCEPT ![k] = "StructureError"]
             /\ UNCHANGED cells
  /\ UNCHANGED <<scfg, sargs, svars, sret, durable, cvarsAll>>

\* return server_state / return server_vars: the orchestrator replaces the
\* state it holds by the returned one.
ServerReturn(k) ==
  /\ spc[k] = "return"
  /\ sret' = [sret EXCEPT ![k] = svars[k]]
  /\ durable' = svars[k]
  /\ spc' = [spc EXCEPT ![k] = "done"]
  /\ UNCHANGED <<scfg, sargs, cells, svars, serr, cvarsAll>>

ServerStep(k) ==
  \/ ServerUpdateCall(k)
  \/ ServerConstruct(k)
  \/ ServerTrace(k)
  \/ ServerCapture(k)
  \/ ServerRestore(k)
  \/ ServerApplyDelta(k)
  \/ ServerReturn(k)

\* --------------------------------------------------------- specifications
Init == ClientInit /\ ServerInit

\* One client_tf invocation.
NextClient == ClientStep(1)

SpecClient == Init /\ [][NextClient]_vars

\* Any number of client_tf invocations, their steps interleaved.
NextConcurrent ==
  \E c \in Clients :
    \/ ConcurrentCall(c)
    \/ ClientCheckType(c)
    \/ ClientCheckStructure(c)
    \/ ClientAssign(c)
    \/ ClientTrain(c)
    \/ ClientDelta(c)

SpecConcurrent == Init /\ [][NextConcurrent]_vars

\* server_init, then server_update_model calls one at a time.
NextServer ==
  \/ ServerInitCall
  \/ \E k \in Calls : ServerStep(k)

SpecServer == Init /\ [][NextServer]_vars

\* server_init, then server_update_model calls that may overlap.
NextOverlap ==
  \/ ServerInitCall
  \/ \E k \in Calls :
       \/ OverlapUpdateCall(k)
       \/ ServerConstruct(k)
       \/ ServerTrace(k)
       \/ ServerCapture(k)
       \/ ServerRestore(k)
       \/ ServerApplyDelta(k)
       \/ ServerReturn(k)

SpecOverlap == Init /\ [][NextOverlap]_vars

\* The two computations share no state; each is checked under its own
\* specification.
Next == NextClient \/ NextServer

Spec == Init /\ [][Next]_vars

\* ------------------------------------------------ client_tf: properties
\* The initial-value structure as name -> value.
InitialValues(kind, initial_model) ==
  [name \in VarNames(kind) |-> InitialValue(initial_model, name)]

\* The model's values after train_on_batch on each batch of dataset in turn.
RECURSIVE TrainAll(_, _, _)
TrainAll(kind, values, dataset) ==
  IF dataset = <<>>
  THEN values
  ELSE TrainAll(kind, TrainOnBatch(kind, values, Head(dataset)).vars, Tail(dataset))

\* The sum of the losses of those steps.
RECURSIVE LossSum(_, _, _)
LossSum(kind, values, dataset) ==
  IF dataset = <<>>
  THEN 0
  ELSE TrainOnBatch(kind, values, Head(dataset)).loss
         + LossSum(kind, TrainOnBatch(kind, values, Head(dataset)).vars, Tail(dataset))

IsPrefix(s, t) == Len(s) <= Len(t) /\ \A i \in DOMAIN s : s[i] = t[i]

AllZero(od) == \A i \in DOMAIN od : od[i].v = 0

LossOutput(c) == Get(cout[c].optimizer_output, "workaround_to_keep_side_effects")

C2_EmptyDatasetZeroDelta ==
  \A c \in Clients :
    (cpc[c] = "done" /\ cargs[c].dataset = <<>>) =>
      /\ ctrace[c] = <<>>
      /\ cerr[c] = "none"
      /\ Keys(cout[c].model_delta) = Range(TrainableNames(cargs[c].kind))
      /\ AllZero(cout[c].model_delta)

\* A call on an empty dataset has returned, and every variable of the model
\* held, before the call, a value other than the initial one.
C2_Witness ==
  \E c \in Clients :
    /\ cpc[c] = "done"
    /\ cargs[c].dataset = <<>>
    /\ cargs[c].kind = "lsq"
    /\ \A v \in VarNames(cargs[c].kind) :
         cargs[c].prior[v] # InitialValue(cargs[c].initial_model, v)

\* The arguments pass the type checks and the initial model lacks a
\* variable of the model.
DeficientCall(c) ==
  /\ cargs[c] # NoArgs
  /\ cargs[c].isModel /\ cargs[c].isDataset
  /\ cargs[c].initial_model \in DeficientInitialModels(cargs[c].kind)

\* C7: a call whose initial model lacks a variable never gets past the
\* structure check: it ends with a structure error, and at every moment of
\* it the model's variables hold their values of before the call, no batch
\* was trained on and no ClientOutput exists.
C7_DeficientInitialModelFailsEarly ==
  \A c \in Clients :
    DeficientCall(c) =>
      /\ cpc[c] \in {"check_type", "check_structure", "failed"}
      /\ cpc[c] = "failed" => cerr[c] = "StructureError"
      /\ cvars[ModelOf(c)] = cargs[c].prior
      /\ casg[c] = 0
      /\ ctrace[c] = <<>>
      /\ cout[c] = NoOutput

\* A call on a non-empty dataset whose initial model lacks w (b and n being
\* there) has failed with the structure error.
C7_Witness ==
  \E c \in Clients :
    /\ DeficientCall(c)
    /\ cargs[c].kind = "lsq"
    /\ "w" \notin Keys(cargs[c].initial_model.tr)
    /\ cargs[c].dataset # <<>>
    /\ cpc[c] = "failed"
    /\ cerr[c] = "StructureError"

\* C8: the batches handed to train_on_batch so far are the first batches of
\* the dataset in dataset order, each once, the reduce state is 0 plus the
\* losses of those steps, and at the return every batch has been handed
\* over and the auxiliary output is that sum.
C8_BatchesOnceInOrder ==
  \A c \in Clients :
    cpc[c] \in {"train", "done"} =>
      LET kind == cargs[c].kind
          start == InitialValues(kind, cargs[c].initial_model)
      IN /\ IsPrefix(ctrace[c], cargs[c].dataset)
         /\ closs[c] = 0 + LossSum(kind, start, ctrace[c])
         /\ cpc[c] = "done" =>
              /\ ctrace[c] = cargs[c].dataset
              /\ LossOutput(c) = 0 + LossSum(kind, start, cargs[c].dataset)

\* A call on two different batches has returned with a loss sum that is
\* not zero.
C8_Witness ==
  \E c \in Clients :
    /\ cpc[c] = "done"
    /\ Len(cargs[c].dataset) = 2
    /\ cargs[c].dataset[1] # cargs[c].dataset[2]
    /\ LossOutput(c) # 0

\* The documented scenario: the model with the single trainable scalar w,
\* sent w = 2.0, and a dataset of two batches.
ScenarioCall(c) ==
  /\ cargs[c] # NoArgs
  /\ cargs[c].kind = "scenario"
  /\ cargs[c].isModel /\ cargs[c].isDataset
  /\ cargs[c].initial_model = [tr |-> <<[k |-> "w", v |-> ScenarioInit]>>, ntr |-> <<>>]
  /\ Len(cargs[c].dataset) = 2

\* C9: in the scenario client_tf returns model_delta[w] = -1.0 and the loss
\* sum 3.5 (in units of 0.5: -2 and 7).
C9_Scenario ==
  \A c \in Clients :
    (ScenarioCall(c) /\ cpc[c] = "done") =>
      /\ cout[c].model_delta = <<[k |-> "w", v |-> -2]>>
      /\ LossOutput(c) = 7

\* The scenario's call has returned.
C9_Witness == \E c \in Clients : ScenarioCall(c) /\ cpc[c] = "done"

\* ---------------------------------------------------- server: properties
ServerTrainable == Range(TrainableNames(ServerKind))

UpdateCalls == {k \in Calls : sargs[k].op = "update"}

\* The call's delta has exactly the trainable names.
Matching(k) == Keys(sargs[k].model_delta) = ServerTrainable

\* The values of the input state and of the call's own variables.
InputValues(k) == StateValues(cells, sargs[k].server_state)
OwnValues(k) == StateValues(cells, svars[k])

\* C3: a server_update call hands the optimizer, for each trainable variable
\* v, exactly one pair, made of v's own delta entry negated and the call's
\* variable v; under gradient descent the model it returns has
\* model[v] = current_state.model[v] + lr * model_delta[v].
C3_NegatedOwnDelta ==
  \A k \in UpdateCalls :
    (Matching(k) /\ spc[k] \in {"apply", "return", "done"}) =>
      LET delta == sargs[k].model_delta
          gv == GradsAndVars(delta, svars[k].model.tr)
      IN /\ Len(gv) = Cardinality(ServerTrainable)
         /\ \A v \in ServerTrainable :
              \E i \in DOMAIN gv :
                /\ gv[i] = [g |-> 0 - Get(delta, v), v |-> Addr(k, "tr", v)]
                /\ \A j \in DOMAIN gv : gv[j].v = gv[i].v => j = i
         /\ (scfg.kind = "sgd" /\ spc[k] \in {"return", "done"}) =>
              \A v \in ServerTrainable :
                OwnValues(k).tr[v] = InputValues(k).tr[v] + scfg.lr * Get(delta, v)

\* A gradient-descent update with learning rate 2 has returned; its delta
\* lists b before w, with different entries that are not zero.
C3_Witness ==
  \E k \in UpdateCalls :
    /\ spc[k] = "done"
    /\ scfg.kind = "sgd" /\ scfg.lr = 2
    /\ Matching(k)
    /\ sargs[k].model_delta[1].k = "b"
    /\ Get(sargs[k].model_delta, "b") # 0
    /\ Get(sargs[k].model_delta, "w") # 0
    /\ Get(sargs[k].model_delta, "b") # Get(sargs[k].model_delta, "w")

\* The call is a finished update whose delta is zero for every trainable
\* variable.
ZeroDeltaDone(k) ==
  /\ sargs[k].op = "update"
  /\ spc[k] = "done"
  /\ Matching(k)
  /\ AllZero(sargs[k].model_delta)

\* C4 as claimed: for any ServerState S, a non-zero momentum accumulator
\* included, server_update with an all-zero delta returns S's model values.
C4_ZeroDeltaIdentity_AnyState ==
  \A k \in Calls :
    ZeroDeltaDone(k) =>
      /\ OwnValues(k).tr = InputValues(k).tr
      /\ OwnValues(k).ntr = InputValues(k).ntr

\* C4, amended: under plain gradient descent, or under momentum when every
\* accumulator in S.optimizer_state is zero, server_update with an all-zero
\* delta returns S's model values, trainable and non-trainable.
C4_ZeroDeltaIdentity ==
  \A k \in Calls :
    (ZeroDeltaDone(k) /\ \A i \in DOMAIN InputValues(k).opt : InputValues(k).opt[i] = 0) =>
      /\ OwnValues(k).tr = InputValues(k).tr
      /\ OwnValues(k).ntr = InputValues(k).ntr

\* A zero-delta update has returned whose input model was not the one the
\* initializers give.
C4_Witness ==
  \E k \in Calls :
    /\ ZeroDeltaDone(k)
    /\ \A i \in DOMAIN InputValues(k).opt : InputValues(k).opt[i] = 0
    /\ \A v \in ServerTrainable :
         \A init \in Initializers : InputValues(k).tr[v] # init[v]

\* The optimizer-internal variable each position of optimizer_state denotes.
SlotNames(st) == [i \in DOMAIN st.optimizer_state |-> st.optimizer_state[i].name]

\* C5: every returned ServerState has the optimizer_state length and
\* positional order of the one server_init returned, and the restore of
\* server_update gives each optimizer variable of the call the value of the
\* input state's entry for that same optimizer variable.
C5_OptimizerStateOrderStable ==
  /\ \A k \in Calls :
       sret[k] # NoState => SlotNames(sret[k]) = SlotNames(sret[0])
  /\ \A k \in UpdateCalls :
       spc[k] = "apply" =>
         /\ SlotNames(svars[k]) = SlotNames(sargs[k].server_state)
         /\ OwnValues(k).opt = InputValues(k).opt

\* Under momentum, an update has restored two accumulators of different
\* values from the state of the round before.
C5_Witness ==
  \E k \in UpdateCalls :
    /\ spc[k] = "apply"
    /\ Len(svars[k].optimizer_state) = 2
    /\ InputValues(k).opt[1] # InputValues(k).opt[2]

\* C6: while a server_update call whose delta's names differ from the
\* trainable names is running, the state the orchestrator holds and its
\* values stay as they are; the call never returns a ServerState, and it
\* ends with the structure error.
C6_MismatchedDeltaAppliesNothing ==
  [][\A k \in Calls :
       /\ (sargs'[k].op = "update" /\ Keys(sargs'[k].model_delta) # ServerTrainable) =>
            /\ spc'[k] \notin {"return", "done"}
            /\ sret'[k] = NoState
            /\ spc'[k] = "failed" => serr'[k] = "StructureError"
       /\ (sargs[k].op = "update" /\ Keys(sargs[k].model_delta) # ServerTrainable
             /\ Active(k)) =>
            /\ durable' = durable
            /\ StateValues(cells', durable') = StateValues(cells, durable)
            /\ sret' = sret]_vars

\* A call whose delta names w and x has failed with the structure error.
C6_Witness ==
  \E k \in UpdateCalls :
    /\ Keys(sargs[k].model_delta) = {"w", "x"}
    /\ spc[k] = "failed"
    /\ serr[k] = "StructureError"

\* C10: no step of a call changes a variable of another call, and the
\* variables of a call that has returned never change again; the
\* ServerState of a call is made of variables the call itself created.
C10_StateReplacedNotMutated ==
  [][\A j \in Calls :
       /\ (spc[j] = "done" \/ spc'[j] = spc[j]) => cells'[j] = cells[j]
       /\ svars'[j] # NoState =>
            \A i \in DOMAIN FlattenState(svars'[j]) : FlattenState(svars'[j])[i].call = j]_vars

\* An update has returned values that differ from those of its input state,
\* which the input state still holds.
C10_Witness ==
  \E k \in UpdateCalls :
    /\ spc[k] = "done"
    /\ \A v \in ServerTrainable : OwnValues(k).tr[v] # InputValues(k).tr[v]

\* ------------------------------------------- concurrent clients: properties
\* The ClientOutput of client_tf run alone on these arguments.
SoloOutput(kind, initial_model, dataset) ==
  LET start == InitialValues(kind, initial_model)
      trained == TrainAll(kind, start, dataset)
  IN [model_delta |->
        [i \in DOMAIN TrainableNames(kind) |->
           [k |-> TrainableNames(kind)[i],
            v |-> trained[TrainableNames(kind)[i]]
                    - Get(initial_model.tr, TrainableNames(kind)[i])]],
      model_output |-> AggregatedOutputs(kind, trained),
      optimizer_output |->
        <<[k |-> "workaround_to_keep_side_effects",
           v |-> 0 + LossSum(kind, start, dataset)]>>]

ReturnsSoloOutput(c) ==
  cout[c] = SoloOutput(cargs[c].kind, cargs[c].initial_model, cargs[c].dataset)

\* C11 as claimed: whatever the invocations and the interleaving of their
\* steps, each returned ClientOutput is the one the invocation returns when
\* run alone on its initial model and dataset.
C11_ConcurrentEqualsSolo_AnyCalls ==
  \A c \in Clients : cpc[c] = "done" => ReturnsSoloOutput(c)

\* C11, amended: when no two invocations are handed the same model object,
\* each returned ClientOutput is the one the invocation returns when run
\* alone, whatever the interleaving.
C11_ConcurrentEqualsSolo ==
  \A c \in Clients :
    (cpc[c] = "done" /\ UsersOf(ModelOf(c)) = {c}) => ReturnsSoloOutput(c)

\* Two invocations on models of their own, with different initial models and
\* datasets of two batches, have both returned, different outputs.
C11_Witness ==
  /\ \A c \in Clients : cpc[c] = "done" /\ Len(cargs[c].dataset) = 2
  /\ ModelOf(1) # ModelOf(2)
  /\ cargs[1].initial_model # cargs[2].initial_model
  /\ cout[1] # cout[2]

\* ------------------------------------------------- server_init: properties

\* C12: the ServerState server_init returns holds, for every trainable and
\* non-trainable variable, the value its initializer gave it: once the
\* model is built no step of server_init changes a model variable, the
\* dummy zero-delta application included, the state returned is made of
\* those variables, and only optimizer_state shows the first use (under
\* momentum, one accumulator per trainable variable).
C12_InitKeepsInitializerValues ==
  [][/\ cells[0] # NoCells =>
          /\ cells'[0].tr = cells[0].tr
          /\ cells'[0].ntr = cells[0].ntr
     /\ cells'[0] # NoCells =>
          /\ cells'[0].tr \in InitializerValues(TrainableNames(ServerKind))
          /\ cells'[0].ntr \in InitializerValues(NonTrainableNames(ServerKind))
     /\ sret'[0] # NoState =>
          /\ StateValues(cells', sret'[0]).tr = cells'[0].tr
          /\ StateValues(cells', sret'[0]).ntr = cells'[0].ntr
          /\ Len(sret'[0].optimizer_state) =
               IF scfg.kind = "momentum" THEN Cardinality(ServerTrainable) ELSE 0]_vars

\* Under momentum, server_init has returned a state with two accumulators.
C12_Witness ==
  /\ sret[0] # NoState
  /\ spc[0] = "done"
  /\ scfg.kind = "momentum"
  /\ Len(sret[0].optimizer_state) = 2

\* --------------------------------------- server_update_model: the rounds
\* server_update as a function from values to values: the state it returns
\* for an input state with the values vals and the delta.
ServerUpdateValues(cfg, vals, delta) ==
  LET sorted == SortedKeys(ServerTrainable)
      pos(name) == CHOOSE i \in DOMAIN sorted : sorted[i] = name
      acc(name) == cfg.momentum * vals.opt[pos(name)] - Get(delta, name)
  IN IF cfg.kind = "sgd"
     THEN [tr |-> [name \in ServerTrainable |->
                     vals.tr[name] + cfg.lr * Get(delta, name)],
           ntr |-> vals.ntr,
           opt |-> vals.opt]
     ELSE [tr |-> [name \in ServerTrainable |->
                     vals.tr[name] - cfg.lr * acc(name)],
           ntr |-> vals.ntr,
           opt |-> [i \in DOMAIN sorted |-> acc(sorted[i])]]

\* The call whose ServerState a state is.
CallOf(st) == st.model.tr[1].v.call

\* The update calls that have returned their state.
Returned == {k \in UpdateCalls : spc[k] = "done"}

\* The calls a state is built on: its own call, the call that returned its
\* input state, and so on back to server_init.
RECURSIVE Chain(_)
Chain(j) ==
  IF j = 0 THEN {0} ELSE {j} \cup Chain(CallOf(sargs[j].server_state))

\* The sum, over the update calls a state is built on, of the delta entries
\* of one variable.
RECURSIVE ChainDelta(_, _)
ChainDelta(j, name) ==
  IF j = 0 THEN 0
  ELSE Get(sargs[j].model_delta, name) + ChainDelta(CallOf(sargs[j].server_state), name)

\* No two returned calls read the same ServerState.
OneAtATime ==
  \A j, k \in Returned :
    j # k => CallOf(sargs[j].server_state) # CallOf(sargs[k].server_state)

\* C13: every returned server_update call returns server_update(its input
\* state, its delta); when no two returned calls read the same ServerState,
\* the durable state is built on every returned call, and under gradient
\* descent each trainable variable of it is server_init's value plus lr
\* times the sum of all returned deltas. Two calls that read the same
\* ServerState lose one delta: see C13_Witness.
C13_RoundsCompose ==
  /\ \A k \in Returned :
       /\ StateValues(cells, sret[k]) =
            ServerUpdateValues(scfg, InputValues(k), sargs[k].model_delta)
       /\ OwnValues(k) = StateValues(cells, sret[k])
  /\ (durable # NoState /\ OneAtATime) =>
       /\ Returned \subseteq Chain(CallOf(durable))
       /\ scfg.kind = "sgd" =>
            \A v \in ServerTrainable :
              StateValues(cells, durable).tr[v] =
                StateValues(cells, sret[0]).tr[v] + scfg.lr * ChainDelta(CallOf(durable), v)

\* Two server_update calls with different non-zero deltas read the same
\* ServerState and both returned; the durable state is the second one's and
\* holds nothing of the first one's delta.
C13_Witness ==
  /\ durable # NoState
  /\ scfg.kind = "sgd"
  /\ \E j, k \in Returned :
       /\ j # k
       /\ CallOf(sargs[j].server_state) = CallOf(sargs[k].server_state)
       /\ sargs[j].model_delta # sargs[k].model_delta
       /\ CallOf(durable) = k
       /\ j \notin Chain(k)
       /\ \A v \in ServerTrainable :
            StateValues(cells, durable).tr[v] =
              InputValues(k).tr[v] + scfg.lr * Get(sargs[k].model_delta, v)
       /\ \E v \in ServerTrainable :
            StateValues(cells, durable).tr[v] #
              InputValues(k).tr[v] + scfg.lr *
                (Get(sargs[j].model_delta, v) + Get(sargs[k].model_delta, v))

\* ------------------------------------------- client_tf: the type checks
\* The call was handed a model that is no Model or a dataset that is no
\* Dataset.
IllTypedCall(c) ==
  /\ cpc[c] # "idle"
  /\ ~(cargs[c].isModel /\ cargs[c].isDataset)

\* C14: a call whose model is no Model, or whose dataset is no Dataset, is
\* only ever at the type check or failed with a type error; at every such
\* point the model's variables hold the values they had before the call, no
\* tf.assign has run, no batch has been handed to train_on_batch, the
\* reduce state is untouched and nothing has been returned.
C14_IllTypedCallFailsFirst ==
  \A c \in Clients :
    IllTypedCall(c) =>
      /\ cpc[c] \in {"check_type", "failed"}
      /\ cpc[c] = "failed" => cerr[c] = "TypeError"
      /\ cvars[ModelOf(c)] = cargs[c].prior
      /\ casg[c] = 0
      /\ ctrace[c] = <<>>
      /\ closs[c] = LossInit
      /\ cout[c] = NoOutput

\* A call with a well-formed model and initial model, a dataset argument
\* that is no Dataset, and prior values that differ from the initial
\* model's, has failed with a type error.
C14_Witness ==
  \E c \in Clients :
    /\ cpc[c] = "failed"
    /\ cerr[c] = "TypeError"
    /\ cargs[c].isModel /\ ~cargs[c].isDataset
    /\ cargs[c].initial_model \in MatchingInitialModels(cargs[c].kind)
    /\ cargs[c].dataset # <<>>
    /\ \A name \in VarNames(cargs[c].kind) :
         cargs[c].prior[name] # InitialValue(cargs[c].initial_model, name)

\* ------------------------------------- client_tf: one batch, one step
\* The call has returned from a dataset of exactly one batch.
OneBatchDone(c) == cpc[c] = "done" /\ Len(cargs[c].dataset) = 1

\* The change the single training step makes to variable v, the model
\* holding the initial values.
StepChange(c, v) ==
  LET start == InitialValues(cargs[c].kind, cargs[c].initial_model)
  IN TrainOnBatch(cargs[c].kind, start, cargs[c].dataset[1]).vars[v] - start[v]

\* C15 as stated: on a dataset of exactly one batch, model_delta is the
\* change made by the single training step and is not all-zero.
C15_OneBatchDeltaNonZero ==
  \A c \in Clients :
    OneBatchDone(c) =>
      /\ \A v \in Keys(cout[c].model_delta) : Get(cout[c].model_delta, v) = StepChange(c, v)
      /\ ~AllZero(cout[c].model_delta)

\* C15, amended: on a dataset of exactly one batch, exactly one training
\* step has run, on that batch, and model_delta holds, for each trainable
\* variable, the change that step made to it; the delta is all-zero exactly
\* when the step changed no trainable variable.
C15_OneBatchDeltaIsStepChange ==
  \A c \in Clients :
    OneBatchDone(c) =>
      /\ ctrace[c] = cargs[c].dataset
      /\ Keys(cout[c].model_delta) = Range(TrainableNames(cargs[c].kind))
      /\ \A v \in Keys(cout[c].model_delta) : Get(cout[c].model_delta, v) = StepChange(c, v)
      /\ AllZero(cout[c].model_delta) <=>
           \A v \in Range(TrainableNames(cargs[c].kind)) : StepChange(c, v) = 0

\* A call on one batch has returned a delta that is not zero, from a model
\* that held other values before the call.
C15_Witness ==
  \E c \in Clients :
    /\ OneBatchDone(c)
    /\ cargs[c].kind = "lsq"
    /\ ~AllZero(cout[c].model_delta)
    /\ \A v \in VarNames(cargs[c].kind) :
         cargs[c].prior[v] # InitialValue(cargs[c].initial_model, v)

\* ------------------------- server_update_model: trace, restore, apply
\* The helper has built the call's variables and run the dummy zero-delta
\* trace: they hold initializer values, and the optimizer's variables are
\* as their first use left them.
Traced(k) ==
  /\ OwnValues(k).tr \in InitializerValues(TrainableNames(ServerKind))
  /\ OwnValues(k).ntr \in InitializerValues(NonTrainableNames(ServerKind))
  /\ OwnValues(k).opt = IF scfg.kind = "momentum"
                        THEN [i \in 1..Cardinality(ServerTrainable) |-> 0]
                        ELSE <<>>

\* C16: in a server_update call the helper's dummy trace comes first (at
\* the restore the call's variables hold the initializer values and the
\* trace's optimizer state), then the restore (before the real delta is
\* applied every model variable and every optimizer_state entry of the call
\* holds the value of current_state), then the real delta; the state
\* returned is server_update as a function of current_state's values and
\* model_delta alone.
C16_TraceRestoreApply ==
  \A k \in UpdateCalls :
    /\ spc[k] = "restore" => Traced(k)
    /\ spc[k] = "apply" => OwnValues(k) = InputValues(k)
    /\ (Matching(k) /\ spc[k] \in {"return", "done"}) =>
         OwnValues(k) = ServerUpdateValues(scfg, InputValues(k), sargs[k].model_delta)
    /\ spc[k] = "done" => sret[k] = svars[k]

\* Under momentum a server_update call has returned whose current_state
\* differed from the initializer values in every trainable variable and
\* held accumulators that were not zero, and whose delta was not zero.
C16_Witness ==
  \E k \in UpdateCalls :
    /\ spc[k] = "done"
    /\ scfg.kind = "momentum"
    /\ \A v \in ServerTrainable :
         \A init \in Initializers : InputValues(k).tr[v] # init[v]
    /\ \A i \in DOMAIN InputValues(k).opt : InputValues(k).opt[i] # 0
    /\ Len(InputValues(k).opt) = Cardinality(ServerTrainable)
    /\ ~AllZero(sargs[k].model_delta)
    /\ OwnValues(k) # InputValues(k)

\* ------------------------------------------ client_tf: the three phases
\* C17: in a client_tf call, while the assignments are under way no
\* training step has run; when they are over, and so at the first training
\* step, every trainable and non-trainable variable holds its initial_model
\* value; nothing is returned while training steps remain; and model_delta
\* is read off the variables once the last step is over, so it is the
\* delta of training from the initial model on the dataset, whatever the
\* model held before the call.
C17_AssignTrainThenDelta ==
  \A c \in Clients :
    LET kind == cargs[c].kind
        start == InitialValues(kind, cargs[c].initial_model)
    IN /\ cpc[c] \in {"check_type", "check_structure", "assign"} =>
            ctrace[c] = <<>> /\ cout[c] = NoOutput
       /\ cpc[c] = "assign" => casg[c] < Len(AssignTargets(kind))
       /\ cpc[c] = "train" =>
            /\ casg[c] = Len(FromModel(kind).tr) + Len(FromModel(kind).ntr)
            /\ ctrace[c] = <<>> => cvars[ModelOf(c)] = start
            /\ cvars[ModelOf(c)] = TrainAll(kind, start, ctrace[c])
            /\ cout[c] = NoOutput
       /\ cpc[c] = "done" =>
            /\ ctrace[c] = cargs[c].dataset
            /\ cout[c].model_delta =
                 ModelDelta(kind, TrainAll(kind, start, cargs[c].dataset),
                            cargs[c].initial_model)

\* A call on two batches has returned a delta that is not zero, from a
\* model that held, before the call, a value other than the initial one in
\* every variable.
C17_Witness ==
  \E c \in Clients :
    /\ cpc[c] = "done"
    /\ cargs[c].kind = "lsq"
    /\ Len(cargs[c].dataset) = 2
    /\ cargs[c].dataset[1] # cargs[c].dataset[2]
    /\ ~AllZero(cout[c].model_delta)
    /\ \A v \in VarNames(cargs[c].kind) :
         cargs[c].prior[v] # InitialValue(cargs[c].initial_model, v)

\* ------------------------------ the rounds: the non-trainable variables
\* The non-trainable values of a ServerState.
NonTrainableValues(st) == StateValues(cells, st).ntr

\* C18: across server_init and any server_update calls on any deltas, each
\* call taking the state the previous one returned, every returned
\* ServerState has the non-trainable values of the one server_init
\* returned: a call's restore gives its non-trainable variables the values
\* of its input state, and applying the delta leaves them as they are.
C18_NonTrainableNeverChanges ==
  /\ \A k \in UpdateCalls :
       spc[k] \in {"apply", "return", "done"} =>
         OwnValues(k).ntr = InputValues(k).ntr
  /\ \A k \in Calls :
       sret[k] # NoState => NonTrainableValues(sret[k]) = NonTrainableValues(sret[0])
  /\ durable # NoState => NonTrainableValues(durable) = NonTrainableValues(sret[0])

\* Two server_update calls with deltas that are not zero have returned, and
\* the trainable values of the last state differ from those server_init
\* returned.
C18_Witness ==
  /\ \A k \in Calls : spc[k] = "done"
  /\ \A k \in UpdateCalls : ~AllZero(sargs[k].model_delta)
  /\ UpdateCalls # {}
  /\ StateValues(cells, durable).tr # StateValues(cells, sret[0]).tr
  /\ NonTrainableValues(durable) = NonTrainableValues(sret[0])

====
